---- MODULE Spec2Model ----
(***************************************************************************)
(* Model of publisher1.go (logstash-forwarder): Publishv1 workers that     *)
(* take pages from the input channel, encode them, send them over a TLS    *)
(* connection obtained from connect, wait for a 6 byte acknowledgement and *)
(* hand the page to the registrar channel.                                 *)
(*                                                                         *)
(* Each worker is a goroutine; pc[w] is its position in Publishv1/connect. *)
(* The network, the peer, the file system and the channels' other ends are *)
(* the environment.  The transient failures the environment may produce   *)
(* are limited by budget, so that the state space is finite.               *)
(***************************************************************************)
EXTENDS Integers, Sequences, FiniteSets, TLC

\* ---- bounds of the model ------------------------------------------------
NumWorkers == 2
MaxBatches == 2
MaxEvents == 2
MaxFailures == 1
NumServers == 2
InputCap == 1
RegistrarCap == 1
MaxExtra == 1

\* ---- program constants --------------------------------------------------
\* the acknowledgement is 6 bytes: make([]byte, 0, 6), for ackbytes != 6
AckLen == 6
\* zlib.NewWriterLevel(&buffer, 3)
ZlibLevel == 3

Workers == 1..NumWorkers
\* config.Servers, a non-empty list of addresses
Servers == 1..NumServers
\* the servers that accept connections (the others refuse or time out)
Reachable == {1}

\* the configurations tried: certificate, key and CA given; certificate and key;
\* a certificate without a key; a key without a certificate, with a CA
FullTLS == [cert |-> TRUE, key |-> TRUE, ca |-> TRUE]
Configs ==
    { FullTLS,
      [cert |-> TRUE, key |-> TRUE, ca |-> FALSE],
      [cert |-> TRUE, key |-> FALSE, ca |-> FALSE],
      [cert |-> FALSE, key |-> TRUE, ca |-> TRUE] }

\* what the peer sends back for a batch: the 6 bytes of an acknowledgement, or,
\* failing, nothing or more than 6 bytes
PeerAnswers == {0, AckLen, AckLen + MaxExtra}

NoPage == [id |-> 0, n |-> 0]
NoPayload == [level |-> 0, data |-> <<>>]
NoSocket == [st |-> "nil", addr |-> 0]
\* var tlsconfig tls.Config
NoTLS == [certs |-> FALSE, rootCAs |-> FALSE]

Min(a, b) == IF a < b THEN a ELSE b

VARIABLES
    publisherId,  \* var publisherId = 0 (package level)
    cfg,          \* *NetworkConfig: which of SSLCertificate, SSLKey, SSLCA are non-empty
    aborted,      \* log.Fatalf has ended the process
    budget,       \* transient failures the environment may still produce
    input,        \* input channel: pages queued
    closed,       \* input channel closed
    submitted,    \* pages the producer has put on the input channel
    registrar,    \* registrar channel: pages queued
    pc,           \* position of each worker
    id,           \* Publishv1's local id
    tmp,          \* value loaded by publisherId++
    caller,       \* which call of connect is running: "init", "oops", "ack" or "none"
    sock,         \* Publishv1's socket
    conn,         \* connect's result variable socket
    tlsconfig,    \* connect's tlsconfig: Certificates and RootCAs are set
    page,         \* the loop variable page
    sequence,     \* Publishv1's local sequence (uint32)
    payload,      \* compressed_payload (= buffer.Bytes())
    ackbytes,     \* the ack loop's ackbytes
    avail,        \* bytes the peer has sent on the socket that are not read yet
    dl,           \* the socket's deadline was reset since the last I/O on it
    pending,      \* kind of the last failure that no sleep has followed yet
    wire,         \* what was written to the current socket in the running exchange
    got,          \* bytes read from the current socket since the last body was written
    sent,         \* counts, lengths and bodies written for the current page, over all attempts
    recvd,        \* the pages the worker received from input, in order
    fwd,          \* the pages the worker put on registrar, in order
    connects,     \* how many times connect has returned to the worker
    iofails       \* the I/O failures the worker has seen in the send loop

vars == <<got, publisherId, cfg, aborted, budget, input, closed, submitted, registrar,
          pc, id, tmp, caller, sock, conn, tlsconfig, page, sequence, payload, ackbytes, avail,
          dl, pending, wire, sent, recvd, fwd, connects, iofails>>

\* variables of the process and its channels
shared == <<publisherId, cfg, aborted, budget, input, closed, submitted, registrar>>
\* the worker's history
hist == <<wire, got, sent, recvd, fwd, connects, iofails>>

\* the state after the caller has started the workers of run with
\* go Publishv1(input, registrar, config); the others are never started.
\* The environment may produce f transient failures
Started(run, configs, f) ==
    /\ publisherId = 0
    /\ cfg \in configs
    /\ aborted = FALSE
    /\ budget = f
    /\ input = <<>>
    /\ closed = FALSE
    /\ submitted = 0
    /\ registrar = <<>>
    /\ pc = [w \in Workers |-> IF w \in run THEN "readId" ELSE "off"]
    /\ id = [w \in Workers |-> -1]
    /\ tmp = [w \in Workers |-> 0]
    /\ caller = [w \in Workers |-> "none"]
    /\ sock = [w \in Workers |-> NoSocket]
    /\ conn = [w \in Workers |-> NoSocket]
    /\ tlsconfig = [w \in Workers |-> NoTLS]
    /\ page = [w \in Workers |-> NoPage]
    /\ sequence = [w \in Workers |-> 0]
    /\ payload = [w \in Workers |-> NoPayload]
    /\ ackbytes = [w \in Workers |-> 0]
    /\ avail = [w \in Workers |-> 0]
    /\ dl = [w \in Workers |-> FALSE]
    /\ pending = [w \in Workers |-> "none"]
    /\ wire = [w \in Workers |-> <<>>]
    /\ got = [w \in Workers |-> 0]
    /\ sent = [w \in Workers |-> <<>>]
    /\ recvd = [w \in Workers |-> <<>>]
    /\ fwd = [w \in Workers |-> <<>>]
    /\ connects = [w \in Workers |-> 0]
    /\ iofails = [w \in Workers |-> 0]

\* one worker, with certificate, key and CA given
Init == Started({1}, {FullTLS}, MaxFailures)

\* one worker, with any of the configurations
InitConfig == Started({1}, Configs, MaxFailures)

\* all the workers, started concurrently, with certificate, key and CA given
InitPool == Started(Workers, {FullTLS}, MaxFailures)

\* ---- the environment's ends of the channels ------------------------------
\* the producer puts a page of k events on the input channel
Submit(k) ==
    /\ ~aborted /\ ~closed
    /\ submitted < MaxBatches
    /\ Len(input) < InputCap
    /\ input' = Append(input, [id |-> submitted + 1, n |-> k])
    /\ submitted' = submitted + 1
    /\ UNCHANGED <<publisherId, cfg, aborted, budget, closed, registrar,
                   pc, id, tmp, caller, sock, conn, tlsconfig, page, sequence, payload, ackbytes,
                   avail, dl, pending>>
    /\ UNCHANGED hist

\* the producer closes the input channel
CloseInput ==
    /\ ~aborted /\ ~closed
    /\ closed' = TRUE
    /\ UNCHANGED <<publisherId, cfg, aborted, budget, input, submitted, registrar,
                   pc, id, tmp, caller, sock, conn, tlsconfig, page, sequence, payload, ackbytes,
                   avail, dl, pending>>
    /\ UNCHANGED hist

\* the registrar receives a page from the registrar channel
RegistrarRecv ==
    /\ ~aborted
    /\ registrar # <<>>
    /\ registrar' = Tail(registrar)
    /\ UNCHANGED <<publisherId, cfg, aborted, budget, input, closed, submitted,
                   pc, id, tmp, caller, sock, conn, tlsconfig, page, sequence, payload, ackbytes,
                   avail, dl, pending>>
    /\ UNCHANGED hist

\* ---- Publishv1: start-up --------------------------------------------------
\* id := publisherId
ReadId(w) ==
    /\ ~aborted /\ pc[w] = "readId"
    /\ id' = [id EXCEPT ![w] = publisherId]
    /\ pc' = [pc EXCEPT ![w] = "incLoad"]
    /\ UNCHANGED <<tmp, caller, sock, conn, tlsconfig, page, sequence, payload, ackbytes, avail,
                   dl, pending>>
    /\ UNCHANGED shared
    /\ UNCHANGED hist

\* publisherId++ is a load ...
IncLoad(w) ==
    /\ ~aborted /\ pc[w] = "incLoad"
    /\ tmp' = [tmp EXCEPT ![w] = publisherId]
    /\ pc' = [pc EXCEPT ![w] = "incStore"]
    /\ UNCHANGED <<id, caller, sock, conn, tlsconfig, page, sequence, payload, ackbytes, avail,
                   dl, pending>>
    /\ UNCHANGED shared
    /\ UNCHANGED hist

\* ... and a store, with no synchronisation between the goroutines;
\* then socket = connect(config, id)
IncStore(w) ==
    /\ ~aborted /\ pc[w] = "incStore"
    /\ publisherId' = tmp[w] + 1
    /\ tmp' = [tmp EXCEPT ![w] = 0]
    /\ caller' = [caller EXCEPT ![w] = "init"]
    /\ conn' = [conn EXCEPT ![w] = NoSocket]
    /\ tlsconfig' = [tlsconfig EXCEPT ![w] = NoTLS]
    /\ pc' = [pc EXCEPT ![w] = "loadCert"]
    /\ UNCHANGED <<cfg, aborted, budget, input, closed, submitted, registrar>>
    /\ UNCHANGED <<id, sock, page, sequence, payload, ackbytes, avail,
                   dl, pending>>
    /\ UNCHANGED hist

\* ---- connect ---------------------------------------------------------------
\* the faults of the CA file that connect ends the process on
CAFaults == {"unreadable", "nopem", "wrongtype", "unparsable"}

\* the client certificate is loaded only when both paths are given
LoadsKeyPair(c) == c.cert /\ c.key

\* if len(config.SSLCertificate) > 0 && len(config.SSLKey) > 0 { ... }:
\* the key pair loads, or the block is skipped
LoadCert(w) ==
    /\ ~aborted /\ pc[w] = "loadCert"
    /\ tlsconfig' = [tlsconfig EXCEPT ![w].certs = LoadsKeyPair(cfg)]
    /\ pc' = [pc EXCEPT ![w] = "loadCA"]
    /\ UNCHANGED <<id, tmp, caller, sock, conn, page, sequence, payload, ackbytes,
                   avail, dl, pending>>
    /\ UNCHANGED shared
    /\ UNCHANGED hist

\* tls.LoadX509KeyPair fails: log.Fatalf
LoadCertFatal(w) ==
    /\ ~aborted /\ pc[w] = "loadCert"
    /\ LoadsKeyPair(cfg)
    /\ aborted' = TRUE
    /\ UNCHANGED <<publisherId, cfg, budget, input, closed, submitted, registrar>>
    /\ UNCHANGED <<pc, id, tmp, caller, sock, conn, tlsconfig, page, sequence, payload,
                   ackbytes, avail, dl, pending>>
    /\ UNCHANGED hist

\* if len(config.SSLCA) > 0 { ... }: the CA certificate loads, or the block is
\* skipped
LoadCA(w) ==
    /\ ~aborted /\ pc[w] = "loadCA"
    /\ tlsconfig' = [tlsconfig EXCEPT ![w].rootCAs = cfg.ca]
    /\ pc' = [pc EXCEPT ![w] = "dial"]
    /\ UNCHANGED <<id, tmp, caller, sock, conn, page, sequence, payload, ackbytes,
                   avail, dl, pending>>
    /\ UNCHANGED shared
    /\ UNCHANGED hist

\* the CA file is unreadable, holds no PEM block, holds another block type or
\* does not parse: log.Fatalf
LoadCAFatal(w, fault) ==
    /\ ~aborted /\ pc[w] = "loadCA"
    /\ cfg.ca
    /\ fault \in CAFaults
    /\ aborted' = TRUE
    /\ UNCHANGED <<publisherId, cfg, budget, input, closed, submitted, registrar>>
    /\ UNCHANGED <<pc, id, tmp, caller, sock, conn, tlsconfig, page, sequence, payload,
                   ackbytes, avail, dl, pending>>
    /\ UNCHANGED hist

\* address := config.Servers[rand.Int()%len(config.Servers)];
\* net.DialTimeout succeeds; socket = tls.Client(tcpsocket, &tlsconfig)
DialOk(w, a) ==
    /\ ~aborted /\ pc[w] = "dial"
    /\ a \in Servers
    /\ a \in Reachable
    /\ conn' = [conn EXCEPT ![w] = [st |-> "tcp", addr |-> a]]
    /\ wire' = [wire EXCEPT ![w] = <<>>]
    /\ got' = [got EXCEPT ![w] = 0]
    /\ avail' = [avail EXCEPT ![w] = 0]
    /\ dl' = [dl EXCEPT ![w] = FALSE]
    /\ pc' = [pc EXCEPT ![w] = "hsDeadline"]
    /\ UNCHANGED <<id, tmp, caller, sock, tlsconfig, page, sequence, payload, ackbytes,
                   pending>>
    /\ UNCHANGED shared
    /\ UNCHANGED <<sent, recvd, fwd, connects, iofails>>

\* net.DialTimeout fails: the server is not reachable, or a transient failure
DialFail(w, a) ==
    /\ ~aborted /\ pc[w] = "dial"
    /\ a \in Servers
    /\ IF a \in Reachable
          THEN budget > 0 /\ budget' = budget - 1
          ELSE budget' = budget
    /\ pending' = [pending EXCEPT ![w] = "conn"]
    /\ pc' = [pc EXCEPT ![w] = "dialSleep"]
    /\ UNCHANGED <<publisherId, cfg, aborted, input, closed, submitted, registrar>>
    /\ UNCHANGED <<id, tmp, caller, sock, conn, tlsconfig, page, sequence, payload, ackbytes,
                   avail, dl>>
    /\ UNCHANGED hist

\* a faulty DialSleep: after a failed dial the worker stops trying
DialSleepGivesUp(w) ==
    /\ ~aborted /\ pc[w] = "dialSleep"
    /\ pending' = [pending EXCEPT ![w] = "none"]
    /\ pc' = [pc EXCEPT ![w] = "done"]
    /\ UNCHANGED <<id, tmp, caller, sock, conn, tlsconfig, page, sequence, payload, ackbytes,
                   avail, dl>>
    /\ UNCHANGED shared
    /\ UNCHANGED hist

\* time.Sleep(1 * time.Second); continue
DialSleep(w) ==
    /\ ~aborted /\ pc[w] = "dialSleep"
    /\ pending' = [pending EXCEPT ![w] = "none"]
    /\ pc' = [pc EXCEPT ![w] = "dial"]
    /\ UNCHANGED <<id, tmp, caller, sock, conn, tlsconfig, page, sequence, payload, ackbytes,
                   avail, dl>>
    /\ UNCHANGED shared
    /\ UNCHANGED hist

\* socket.SetDeadline(time.Now().Add(config.timeout)), before the handshake
HsDeadline(w) ==
    /\ ~aborted /\ pc[w] = "hsDeadline"
    /\ dl' = [dl EXCEPT ![w] = TRUE]
    /\ pc' = [pc EXCEPT ![w] = "handshake"]
    /\ UNCHANGED <<id, tmp, caller, sock, conn, tlsconfig, page, sequence, payload, ackbytes,
                   avail, pending>>
    /\ UNCHANGED shared
    /\ UNCHANGED hist

\* a faulty AfterConnect: after a reconnect the worker goes on with the next page
AfterConnectNextPage(c) == "recv"

\* a faulty AfterConnect: after a reconnect the worker resumes in the middle of
\* the exchange, at the payload frame
AfterConnectResumesMidFrame(c) == IF c = "init" THEN "recv" ELSE "cTag"

\* a faulty AfterConnect: after a reconnect the worker writes without setting
\* the deadline of the attempt
AfterConnectSkipsDeadline(c) == IF c = "init" THEN "recv" ELSE "wTag"

\* where the caller of connect goes on when connect returns
AfterConnect(c) == IF c = "init" THEN "recv" ELSE "setDeadline"

\* socket.Handshake() succeeds; connect returns and the caller assigns its socket
HandshakeOk(w) ==
    /\ ~aborted /\ pc[w] = "handshake"
    /\ conn' = [conn EXCEPT ![w].st = "up"]
    /\ sock' = [sock EXCEPT ![w] = [conn[w] EXCEPT !.st = "up"]]
    /\ dl' = [dl EXCEPT ![w] = FALSE]
    /\ connects' = [connects EXCEPT ![w] = @ + 1]
    /\ pc' = [pc EXCEPT ![w] = AfterConnect(caller[w])]
    /\ caller' = [caller EXCEPT ![w] = "none"]
    /\ pending' = [pending EXCEPT ![w] = "none"]
    /\ UNCHANGED <<id, tmp, tlsconfig, page, sequence, payload, ackbytes, avail>>
    /\ UNCHANGED shared
    /\ UNCHANGED <<wire, got, sent, recvd, fwd, iofails>>

\* a faulty HandshakeFail: connect returns the socket whose handshake failed
HandshakeFailReturns(w) ==
    /\ ~aborted /\ pc[w] = "handshake"
    /\ budget > 0
    /\ budget' = budget - 1
    /\ dl' = [dl EXCEPT ![w] = FALSE]
    /\ sock' = [sock EXCEPT ![w] = conn[w]]
    /\ connects' = [connects EXCEPT ![w] = @ + 1]
    /\ pc' = [pc EXCEPT ![w] = AfterConnect(caller[w])]
    /\ caller' = [caller EXCEPT ![w] = "none"]
    /\ pending' = [pending EXCEPT ![w] = "none"]
    /\ UNCHANGED <<publisherId, cfg, aborted, input, closed, submitted, registrar>>
    /\ UNCHANGED <<id, tmp, conn, tlsconfig, page, sequence, payload, ackbytes, avail>>
    /\ UNCHANGED <<wire, got, sent, recvd, fwd, iofails>>

\* socket.Handshake() fails
HandshakeFail(w) ==
    /\ ~aborted /\ pc[w] = "handshake"
    /\ budget > 0
    /\ budget' = budget - 1
    /\ dl' = [dl EXCEPT ![w] = FALSE]
    /\ pending' = [pending EXCEPT ![w] = "conn"]
    /\ pc' = [pc EXCEPT ![w] = "hsSleep"]
    /\ UNCHANGED <<publisherId, cfg, aborted, input, closed, submitted, registrar>>
    /\ UNCHANGED <<id, tmp, caller, sock, conn, tlsconfig, page, sequence, payload, ackbytes,
                   avail>>
    /\ UNCHANGED hist

\* time.Sleep(1 * time.Second)
HsSleep(w) ==
    /\ ~aborted /\ pc[w] = "hsSleep"
    /\ pending' = [pending EXCEPT ![w] = "none"]
    /\ pc' = [pc EXCEPT ![w] = "hsClose"]
    /\ UNCHANGED <<id, tmp, caller, sock, conn, tlsconfig, page, sequence, payload, ackbytes,
                   avail, dl>>
    /\ UNCHANGED shared
    /\ UNCHANGED hist

\* a faulty HsClose: the socket whose handshake failed is left open
HsCloseLeaks(w) ==
    /\ ~aborted /\ pc[w] = "hsClose"
    /\ pc' = [pc EXCEPT ![w] = "dial"]
    /\ UNCHANGED <<id, tmp, caller, sock, conn, tlsconfig, page, sequence, payload, ackbytes,
                   avail, dl, pending>>
    /\ UNCHANGED shared
    /\ UNCHANGED hist

\* socket.Close(); continue
HsClose(w) ==
    /\ ~aborted /\ pc[w] = "hsClose"
    /\ conn' = [conn EXCEPT ![w].st = "closed"]
    /\ pc' = [pc EXCEPT ![w] = "dial"]
    /\ UNCHANGED <<id, tmp, caller, sock, tlsconfig, page, sequence, payload, ackbytes,
                   avail, dl, pending>>
    /\ UNCHANGED shared
    /\ UNCHANGED hist

\* ---- Publishv1: the loop over the pages ------------------------------------
\* the events of a page, in the page's order
Events(p) == [i \in 1..p.n |-> <<p.id, i>>]

\* for _, event := range page { sequence += 1; event.writeFrame(compressor, sequence) }
\* the frames written into the compressor, starting from the counter seq.
\* sequence is a uint32; a worker encodes at most MaxBatches * MaxEvents events
\* here, so the counter stays far below 2^32 and never wraps
WriteFrames(p, seq) ==
    [i \in 1..p.n |-> [event |-> Events(p)[i], seq |-> seq + i]]

\* a faulty SequenceAfter: the counter starts again for every page
SequenceRestarts(p, seq) == 0

\* the counter after the loop
SequenceAfter(p, seq) == seq + p.n

\* buffer.Bytes() after the frames went through the zlib writer of level 3
Compress(frames) == [level |-> ZlibLevel, data |-> frames]

\* len(compressed_payload), counted in frames
PayloadLen(z) == Len(z.data)

\* for page := range input: a page is received
Recv(w) ==
    /\ ~aborted /\ pc[w] = "recv"
    /\ input # <<>>
    /\ page' = [page EXCEPT ![w] = Head(input)]
    /\ input' = Tail(input)
    /\ recvd' = [recvd EXCEPT ![w] = Append(@, Head(input))]
    /\ pc' = [pc EXCEPT ![w] = "encode"]
    /\ UNCHANGED <<publisherId, cfg, aborted, budget, closed, submitted, registrar>>
    /\ UNCHANGED <<id, tmp, caller, sock, conn, tlsconfig, sequence, payload,
                   ackbytes, avail, dl, pending>>
    /\ UNCHANGED <<wire, got, sent, fwd, connects, iofails>>

\* a faulty Exit: the worker returns without closing its socket
ExitLeavesOpen(w) ==
    /\ ~aborted /\ pc[w] = "recv"
    /\ input = <<>> /\ closed
    /\ pc' = [pc EXCEPT ![w] = "done"]
    /\ UNCHANGED <<id, tmp, caller, sock, conn, tlsconfig, page, sequence, payload,
                   ackbytes, avail, dl, pending>>
    /\ UNCHANGED shared
    /\ UNCHANGED hist

\* for page := range input ends: the channel is closed and empty; the deferred
\* function closes the socket
Exit(w) ==
    /\ ~aborted /\ pc[w] = "recv"
    /\ input = <<>> /\ closed
    /\ sock' = [sock EXCEPT ![w].st = "closed"]
    /\ pc' = [pc EXCEPT ![w] = "done"]
    /\ UNCHANGED <<id, tmp, caller, conn, tlsconfig, page, sequence, payload,
                   ackbytes, avail, dl, pending>>
    /\ UNCHANGED shared
    /\ UNCHANGED hist

\* buffer.Truncate(0) ... compressed_payload := buffer.Bytes()
Encode(w) ==
    /\ ~aborted /\ pc[w] = "encode"
    /\ payload' = [payload EXCEPT ![w] = Compress(WriteFrames(page[w], sequence[w]))]
    /\ sequence' = [sequence EXCEPT ![w] = SequenceAfter(page[w], sequence[w])]
    /\ pc' = [pc EXCEPT ![w] = "setDeadline"]
    /\ UNCHANGED <<id, tmp, caller, sock, conn, tlsconfig, page, ackbytes, avail,
                   dl, pending>>
    /\ UNCHANGED shared
    /\ UNCHANGED hist

\* SendPayload: socket.SetDeadline(time.Now().Add(config.timeout))
SetDeadline(w) ==
    /\ ~aborted /\ pc[w] = "setDeadline"
    /\ dl' = [dl EXCEPT ![w] = TRUE]
    /\ pc' = [pc EXCEPT ![w] = "wTag"]
    /\ UNCHANGED <<id, tmp, caller, sock, conn, tlsconfig, page, sequence, payload,
                   ackbytes, avail, pending>>
    /\ UNCHANGED shared
    /\ UNCHANGED hist

\* the positions of the five writes of a send attempt
WritePcs == {"wTag", "wCount", "cTag", "cLen", "cBody"}

\* a write at position at succeeds: item goes out on the socket
WriteOk(w, at, item, next) ==
    /\ ~aborted /\ pc[w] = at
    /\ wire' = [wire EXCEPT ![w] = Append(@, item)]
    /\ sent' = [sent EXCEPT ![w] = IF item[1] = "tag" THEN @ ELSE Append(@, item)]
    /\ dl' = [dl EXCEPT ![w] = FALSE]
    /\ pc' = [pc EXCEPT ![w] = next]

\* socket.Write([]byte("1W"))
WTag(w) ==
    /\ WriteOk(w, "wTag", <<"tag", "1W">>, "wCount")
    /\ UNCHANGED <<id, tmp, caller, sock, conn, tlsconfig, page, sequence, payload,
                   ackbytes, avail, pending>>
    /\ UNCHANGED shared
    /\ UNCHANGED <<got, recvd, fwd, connects, iofails>>

\* binary.Write(socket, binary.BigEndian, uint32(len(page)))
WCount(w) ==
    /\ WriteOk(w, "wCount", <<"count", page[w].n>>, "cTag")
    /\ UNCHANGED <<id, tmp, caller, sock, conn, tlsconfig, page, sequence, payload,
                   ackbytes, avail, pending>>
    /\ UNCHANGED shared
    /\ UNCHANGED <<got, recvd, fwd, connects, iofails>>

\* socket.Write([]byte("1C"))
CTag(w) ==
    /\ WriteOk(w, "cTag", <<"tag", "1C">>, "cLen")
    /\ UNCHANGED <<id, tmp, caller, sock, conn, tlsconfig, page, sequence, payload,
                   ackbytes, avail, pending>>
    /\ UNCHANGED shared
    /\ UNCHANGED <<got, recvd, fwd, connects, iofails>>

\* binary.Write(socket, binary.BigEndian, uint32(len(compressed_payload)))
CLen(w) ==
    /\ WriteOk(w, "cLen", <<"len", PayloadLen(payload[w])>>, "cBody")
    /\ UNCHANGED <<id, tmp, caller, sock, conn, tlsconfig, page, sequence, payload,
                   ackbytes, avail, pending>>
    /\ UNCHANGED shared
    /\ UNCHANGED <<got, recvd, fwd, connects, iofails>>

\* socket.Write(compressed_payload); response := make([]byte, 0, 6); ackbytes := 0.
\* The peer has the whole batch and answers with k bytes: the 6 of an
\* acknowledgement, or (a failure of the peer) none or more
CBody(w, k) ==
    /\ WriteOk(w, "cBody", <<"body", payload[w]>>, "readAck")
    /\ k \in PeerAnswers
    /\ got' = [got EXCEPT ![w] = 0]
    /\ IF k = AckLen
          THEN budget' = budget
          ELSE budget > 0 /\ budget' = budget - 1
    /\ avail' = [avail EXCEPT ![w] = @ + k]
    /\ ackbytes' = [ackbytes EXCEPT ![w] = 0]
    /\ UNCHANGED <<publisherId, cfg, aborted, input, closed, submitted, registrar>>
    /\ UNCHANGED <<id, tmp, caller, sock, conn, tlsconfig, page, sequence, payload,
                   pending>>
    /\ UNCHANGED <<recvd, fwd, connects, iofails>>

\* one of the five writes fails: oops(err); continue
WriteFail(w) ==
    /\ ~aborted /\ pc[w] \in WritePcs
    /\ budget > 0
    /\ budget' = budget - 1
    /\ dl' = [dl EXCEPT ![w] = FALSE]
    /\ pending' = [pending EXCEPT ![w] = "io"]
    /\ iofails' = [iofails EXCEPT ![w] = @ + 1]
    /\ pc' = [pc EXCEPT ![w] = "oopsSleep"]
    /\ UNCHANGED <<publisherId, cfg, aborted, input, closed, submitted, registrar>>
    /\ UNCHANGED <<id, tmp, caller, sock, conn, tlsconfig, page, sequence, payload,
                   ackbytes, avail>>
    /\ UNCHANGED <<wire, got, sent, recvd, fwd, connects>>

\* oops: time.Sleep(1 * time.Second)
OopsSleep(w) ==
    /\ ~aborted /\ pc[w] = "oopsSleep"
    /\ pending' = [pending EXCEPT ![w] = "none"]
    /\ pc' = [pc EXCEPT ![w] = "oopsClose"]
    /\ UNCHANGED <<id, tmp, caller, sock, conn, tlsconfig, page, sequence, payload,
                   ackbytes, avail, dl>>
    /\ UNCHANGED shared
    /\ UNCHANGED hist

\* a faulty OopsClose: the page is encoded again for the next attempt
OopsCloseReencodes(w) ==
    /\ ~aborted /\ pc[w] = "oopsClose"
    /\ sock' = [sock EXCEPT ![w].st = "closed"]
    /\ caller' = [caller EXCEPT ![w] = "oops"]
    /\ conn' = [conn EXCEPT ![w] = NoSocket]
    /\ tlsconfig' = [tlsconfig EXCEPT ![w] = NoTLS]
    /\ payload' = [payload EXCEPT ![w] = Compress(WriteFrames(page[w], sequence[w]))]
    /\ sequence' = [sequence EXCEPT ![w] = SequenceAfter(page[w], sequence[w])]
    /\ pc' = [pc EXCEPT ![w] = "loadCert"]
    /\ UNCHANGED <<id, tmp, page, ackbytes, avail, dl, pending>>
    /\ UNCHANGED shared
    /\ UNCHANGED hist

\* oops: socket.Close(); socket = connect(config, id)
OopsClose(w) ==
    /\ ~aborted /\ pc[w] = "oopsClose"
    /\ sock' = [sock EXCEPT ![w].st = "closed"]
    /\ caller' = [caller EXCEPT ![w] = "oops"]
    /\ conn' = [conn EXCEPT ![w] = NoSocket]
    /\ tlsconfig' = [tlsconfig EXCEPT ![w] = NoTLS]
    /\ pc' = [pc EXCEPT ![w] = "loadCert"]
    /\ UNCHANGED <<id, tmp, page, sequence, payload, ackbytes, avail, dl, pending>>
    /\ UNCHANGED shared
    /\ UNCHANGED hist

\* a faulty AckDone: the loop ends with the first bytes read
AckDoneOnFirstRead(total) == total > 0

\* for ackbytes != 6: the loop ends when total bytes were counted
AckDone(total) == total = AckLen

\* n, err := socket.Read(response[len(response):cap(response)]) with err == nil:
\* response is never extended, so each read asks for up to cap(response) bytes;
\* ackbytes += n; the loop ends when ackbytes is 6
ReadAck(w, n) ==
    /\ ~aborted /\ pc[w] = "readAck"
    /\ n \in 1..Min(avail[w], AckLen)
    /\ avail' = [avail EXCEPT ![w] = @ - n]
    /\ ackbytes' = [ackbytes EXCEPT ![w] = @ + n]
    /\ got' = [got EXCEPT ![w] = @ + n]
    /\ dl' = [dl EXCEPT ![w] = FALSE]
    /\ pc' = [pc EXCEPT ![w] = IF AckDone(ackbytes[w] + n) THEN "forward" ELSE "readAck"]
    /\ UNCHANGED <<id, tmp, caller, sock, conn, tlsconfig, page, sequence, payload,
                   pending>>
    /\ UNCHANGED shared
    /\ UNCHANGED <<wire, sent, recvd, fwd, connects, iofails>>

\* a faulty ReadFail: a failed read ends the attempt and the page is given up
ReadFailGivesUp(w) ==
    /\ ~aborted /\ pc[w] = "readAck"
    /\ IF avail[w] = 0
          THEN budget' = budget
          ELSE budget > 0 /\ budget' = budget - 1
    /\ dl' = [dl EXCEPT ![w] = FALSE]
    /\ iofails' = [iofails EXCEPT ![w] = @ + 1]
    /\ wire' = [wire EXCEPT ![w] = <<>>]
    /\ sent' = [sent EXCEPT ![w] = <<>>]
    /\ pc' = [pc EXCEPT ![w] = "recv"]
    /\ UNCHANGED <<publisherId, cfg, aborted, input, closed, submitted, registrar>>
    /\ UNCHANGED <<id, tmp, caller, sock, conn, tlsconfig, page, sequence, payload,
                   ackbytes, avail, pending>>
    /\ UNCHANGED <<got, recvd, fwd, connects>>

\* socket.Read fails: nothing arrives before the deadline, or a transient failure
ReadFail(w) ==
    /\ ~aborted /\ pc[w] = "readAck"
    /\ IF avail[w] = 0
          THEN budget' = budget
          ELSE budget > 0 /\ budget' = budget - 1
    /\ dl' = [dl EXCEPT ![w] = FALSE]
    /\ pending' = [pending EXCEPT ![w] = "io"]
    /\ iofails' = [iofails EXCEPT ![w] = @ + 1]
    /\ pc' = [pc EXCEPT ![w] = "ackClose"]
    /\ UNCHANGED <<publisherId, cfg, aborted, input, closed, submitted, registrar>>
    /\ UNCHANGED <<id, tmp, caller, sock, conn, tlsconfig, page, sequence, payload,
                   ackbytes, avail>>
    /\ UNCHANGED <<wire, got, sent, recvd, fwd, connects>>

\* socket.Close(); socket = connect(config, id); continue SendPayload
AckClose(w) ==
    /\ ~aborted /\ pc[w] = "ackClose"
    /\ sock' = [sock EXCEPT ![w].st = "closed"]
    /\ caller' = [caller EXCEPT ![w] = "ack"]
    /\ conn' = [conn EXCEPT ![w] = NoSocket]
    /\ tlsconfig' = [tlsconfig EXCEPT ![w] = NoTLS]
    /\ pc' = [pc EXCEPT ![w] = "loadCert"]
    /\ UNCHANGED <<id, tmp, page, sequence, payload, ackbytes, avail, dl, pending>>
    /\ UNCHANGED shared
    /\ UNCHANGED hist

\* registrar <- page
Forward(w) ==
    /\ ~aborted /\ pc[w] = "forward"
    /\ Len(registrar) < RegistrarCap
    /\ registrar' = Append(registrar, page[w])
    /\ fwd' = [fwd EXCEPT ![w] = Append(@, page[w])]
    /\ wire' = [wire EXCEPT ![w] = <<>>]
    /\ sent' = [sent EXCEPT ![w] = <<>>]
    /\ pc' = [pc EXCEPT ![w] = "recv"]
    /\ UNCHANGED <<publisherId, cfg, aborted, budget, input, closed, submitted>>
    /\ UNCHANGED <<id, tmp, caller, sock, conn, tlsconfig, page, sequence, payload,
                   ackbytes, avail, dl, pending>>
    /\ UNCHANGED <<got, recvd, connects, iofails>>

\* ---- the system -------------------------------------------------------------
Next ==
    \/ \E k \in 1..MaxEvents : Submit(k)
    \/ CloseInput
    \/ RegistrarRecv
    \/ \E w \in Workers : ReadId(w)
    \/ \E w \in Workers : IncLoad(w)
    \/ \E w \in Workers : IncStore(w)
    \/ \E w \in Workers : LoadCert(w)
    \/ \E w \in Workers : LoadCertFatal(w)
    \/ \E w \in Workers : LoadCA(w)
    \/ \E w \in Workers : \E fault \in CAFaults : LoadCAFatal(w, fault)
    \/ \E w \in Workers : \E a \in Servers : DialOk(w, a)
    \/ \E w \in Workers : \E a \in Servers : DialFail(w, a)
    \/ \E w \in Workers : DialSleep(w)
    \/ \E w \in Workers : HsDeadline(w)
    \/ \E w \in Workers : HandshakeOk(w)
    \/ \E w \in Workers : HandshakeFail(w)
    \/ \E w \in Workers : HsSleep(w)
    \/ \E w \in Workers : HsClose(w)
    \/ \E w \in Workers : Recv(w)
    \/ \E w \in Workers : Exit(w)
    \/ \E w \in Workers : Encode(w)
    \/ \E w \in Workers : SetDeadline(w)
    \/ \E w \in Workers : WTag(w)
    \/ \E w \in Workers : WCount(w)
    \/ \E w \in Workers : CTag(w)
    \/ \E w \in Workers : CLen(w)
    \/ \E w \in Workers : \E k \in PeerAnswers : CBody(w, k)
    \/ \E w \in Workers : WriteFail(w)
    \/ \E w \in Workers : OopsSleep(w)
    \/ \E w \in Workers : OopsClose(w)
    \/ \E w \in Workers : \E n \in 1..AckLen : ReadAck(w, n)
    \/ \E w \in Workers : ReadFail(w)
    \/ \E w \in Workers : AckClose(w)
    \/ \E w \in Workers : Forward(w)

Spec == Init /\ [][Next]_vars

ConfigSpec == InitConfig /\ [][Next]_vars

PoolSpec == InitPool /\ [][Next]_vars

\* a step of the goroutine of worker w
Step(w) ==
    \/ ReadId(w) \/ IncLoad(w) \/ IncStore(w)
    \/ LoadCert(w) \/ LoadCertFatal(w)
    \/ LoadCA(w) \/ (\E fault \in CAFaults : LoadCAFatal(w, fault))
    \/ (\E a \in Servers : DialOk(w, a)) \/ (\E a \in Servers : DialFail(w, a))
    \/ DialSleep(w) \/ HsDeadline(w) \/ HandshakeOk(w) \/ HandshakeFail(w)
    \/ HsSleep(w) \/ HsClose(w)
    \/ Recv(w) \/ Exit(w) \/ Encode(w) \/ SetDeadline(w)
    \/ WTag(w) \/ WCount(w) \/ CTag(w) \/ CLen(w)
    \/ (\E k \in PeerAnswers : CBody(w, k))
    \/ WriteFail(w) \/ OopsSleep(w) \/ OopsClose(w)
    \/ (\E n \in 1..AckLen : ReadAck(w, n)) \/ ReadFail(w) \/ AckClose(w)
    \/ Forward(w)

\* The scheduler runs every goroutine that can take a step, the registrar
\* keeps receiving, and the random choice of the address does not avoid the
\* reachable servers for ever.  The transient failures are finitely many
\* (budget).
Fairness ==
    /\ \A w \in Workers : WF_vars(Step(w))
    /\ \A w \in Workers : SF_vars(\E a \in Servers : DialOk(w, a))
    /\ WF_vars(RegistrarRecv)

LiveSpec == Init /\ [][Next]_vars /\ Fairness

\* ---- positions ---------------------------------------------------------
\* inside connect
ConnectPcs ==
    {"loadCert", "loadCA", "dial", "dialSleep", "hsDeadline", "handshake",
     "hsSleep", "hsClose"}

\* inside one send attempt (the body of SendPayload)
SendPcs == {"setDeadline"} \cup WritePcs \cup {"readAck"}

\* in Publishv1's loop, between two calls of connect
RunPcs == {"recv", "encode", "forward", "oopsSleep", "oopsClose", "ackClose"} \cup SendPcs

\* ---- operators used by the properties ---------------------------------------
IsPrefix(s, t) == Len(s) <= Len(t) /\ \A i \in 1..Len(s) : s[i] = t[i]

Range(s) == {s[i] : i \in 1..Len(s)}

RECURSIVE TotalEvents(_)
\* the number of events in a sequence of pages
TotalEvents(ps) == IF ps = <<>> THEN 0 ELSE Head(ps).n + TotalEvents(Tail(ps))

\* the events of the pages a worker encoded before its current page
EventsBefore(w) == TotalEvents(SubSeq(recvd[w], 1, Len(recvd[w]) - 1))

\* the sequence numbers in a payload, in order
SeqNumbers(z) == [i \in 1..Len(z.data) |-> z.data[i].seq]

\* the events in a payload, in order
EventsOf(z) == [i \in 1..Len(z.data) |-> z.data[i].event]

\* what one complete send attempt writes for page p with payload z
Frames(p, z) ==
    << <<"tag", "1W">>, <<"count", p.n>>,
       <<"tag", "1C">>, <<"len", PayloadLen(z)>>, <<"body", z>> >>

\* worker w has encoded its current page and not yet received the next one
Encoded(w) == recvd[w] # <<>> /\ pc[w] # "encode" /\ pc[w] # "off"

\* worker w holds a page that it has not forwarded
InFlight(w) == Len(recvd[w]) > Len(fwd[w])

\* ---- C1 -----------------------------------------------------------------------
\* C1: a page goes on the registrar channel only when, on the worker's current
\* connection and in the running attempt, the five writes of the page's two
\* frames were all made and exactly 6 bytes were read after them
C1_ForwardOnlyAfterAck ==
    [][\A w \in Workers :
         fwd'[w] # fwd[w] =>
            /\ fwd'[w] = Append(fwd[w], page[w])
            /\ wire[w] = Frames(page[w], payload[w])
            /\ EventsOf(payload[w]) = Events(page[w])
            /\ got[w] = AckLen
            /\ sock[w].st = "up"]_vars

\* a page was forwarded by a worker that had an attempt fail
C1_Witness == Len(fwd[1]) >= 1 /\ iofails[1] >= 1

\* ---- C2 -----------------------------------------------------------------------
\* page b has been put on the registrar channel
Forwarded(b) == \E w \in Workers : \E i \in 1..Len(fwd[w]) : fwd[w][i].id = b

\* C2: every page submitted on the input channel is eventually put on the
\* registrar channel, unless log.Fatalf ends the process
C2_EverySubmittedPageForwarded ==
    \A b \in 1..MaxBatches : (submitted >= b) ~> (Forwarded(b) \/ aborted)

\* every page was forwarded although the environment used its whole failure budget
C2_Witness == \A b \in 1..MaxBatches : Forwarded(b) /\ budget = 0 /\ ~aborted

\* ---- C3 -----------------------------------------------------------------------
\* C3: no page is forwarded twice, every forwarded page was received, what a
\* worker received and has not forwarded is only its current page, and every
\* submitted page is either still queued or was received by exactly one worker
C3_NoLossNoDuplicate ==
    /\ \A w \in Workers : \A i, j \in 1..Len(fwd[w]) :
          fwd[w][i].id = fwd[w][j].id => i = j
    /\ \A v, w \in Workers :
          v # w => {p.id : p \in Range(recvd[v])} \cap {p.id : p \in Range(recvd[w])} = {}
    /\ \A w \in Workers : Range(fwd[w]) \subseteq Range(recvd[w])
    /\ Range(registrar) \subseteq UNION {Range(fwd[w]) : w \in Workers}
    /\ \A w \in Workers : \A j \in 1..Len(recvd[w]) :
          recvd[w][j] \notin Range(fwd[w]) =>
             /\ j = Len(recvd[w])
             /\ page[w] = recvd[w][j]
             /\ pc[w] \in (RunPcs \ {"recv"}) \cup ConnectPcs
    /\ \A b \in 1..submitted :
          \/ \E i \in 1..Len(input) : input[i].id = b
          \/ \E w \in Workers : \E j \in 1..Len(recvd[w]) : recvd[w][j].id = b

\* each of two workers has forwarded a page, and the failure budget is used up
C3_Witness == Len(fwd[1]) = 1 /\ Len(fwd[2]) = 1 /\ budget = 0

C5_ForwardInOrder == \A w \in Workers : IsPrefix(fwd[w], recvd[w])

\* two pages were forwarded, after a failed attempt
C5_Witness == Len(fwd[1]) = 2 /\ iofails[1] >= 1

\* ---- C6 -----------------------------------------------------------------------
\* C6: the workers that have taken their id hold distinct ids
C6_DistinctIds ==
    \A v, w \in Workers : (v # w /\ id[v] >= 0 /\ id[w] >= 0) => id[v] # id[w]

\* ---- C7 -----------------------------------------------------------------------
\* C7: no dial is attempted while a failure of the send-and-acknowledge exchange
\* has not been followed by a backoff sleep
C7_BackoffBeforeDial == \A w \in Workers : pc[w] = "dial" => pending[w] # "io"

\* ---- C8 -----------------------------------------------------------------------
\* C8: over all attempts for one page the counts, lengths and bodies written are
\* the same, each attempt writes a prefix of the same frames, and the payload
\* and the sequence counter are those of the one encoding of the page
C8_SameBytesEveryAttempt ==
    \A w \in Workers :
       /\ \A i, j \in 1..Len(sent[w]) :
             sent[w][i][1] = sent[w][j][1] => sent[w][i] = sent[w][j]
       /\ (Encoded(w) /\ InFlight(w)) =>
             /\ IsPrefix(wire[w], Frames(page[w], payload[w]))
             /\ \A i \in 1..Len(sent[w]) : sent[w][i] \in Range(Frames(page[w], payload[w]))
             /\ payload[w] = Compress(WriteFrames(page[w], EventsBefore(w)))
             /\ sequence[w] = EventsBefore(w) + page[w].n

\* the body of one page was written twice
C8_Witness ==
    \E i, j \in 1..Len(sent[1]) :
       i < j /\ sent[1][i][1] = "body" /\ sent[1][j][1] = "body"

\* ---- C9 -----------------------------------------------------------------------
\* C9: with a certificate and no key, or a key and no certificate, no worker
\* gets past the loading of the client certificate
C9_AsymmetricConfigAborts ==
    (cfg.cert # cfg.key) =>
       \A w \in Workers : pc[w] \in {"off", "readId", "incLoad", "incStore", "loadCert"}

\* ---- C10 ----------------------------------------------------------------------
\* C10: between two calls of connect the worker holds the connection connect
\* returned, dialled and with its handshake done; connect dials again only with
\* the failed socket closed and the backoff slept; and every address of the pool
\* can be dialled at every attempt
C10_ConnectReturnsLive ==
    \A w \in Workers :
       /\ pc[w] \in RunPcs =>
             conn[w].st = "up" /\ sock[w] = conn[w] /\ conn[w].addr \in Servers
       /\ pc[w] = "dial" =>
             /\ conn[w].st \in {"nil", "closed"}
             /\ pending[w] # "conn"
             /\ \A a \in Servers : ENABLED (DialOk(w, a) \/ DialFail(w, a))

\* connect has returned its first connection after a failed attempt
C10_Witness ==
    pc[1] = "recv" /\ recvd[1] = <<>> /\ connects[1] = 1 /\ budget = 0

\* ---- C11 ----------------------------------------------------------------------
\* C11: a worker returns only when the input channel is closed and empty, and
\* its socket is then closed; and once the input channel is closed every started
\* worker returns (the registrar keeps receiving), unless log.Fatalf ends the
\* process first
C11_WorkersExitOnClose ==
    /\ [](\A w \in Workers :
            pc[w] = "done" => sock[w].st = "closed" /\ closed /\ input = <<>>)
    /\ \A w \in Workers : (closed /\ pc[w] # "off") ~> (pc[w] = "done" \/ aborted)

\* the worker has returned after it forwarded every page and saw a failure
C11_Witness ==
    pc[1] = "done" /\ Len(fwd[1]) = MaxBatches /\ iofails[1] >= 1 /\ sock[1].st = "closed"

\* ---- C12 ----------------------------------------------------------------------
\* C12: the process is ended (log.Fatalf) only while no worker has obtained a
\* connection yet
C12_AbortOnlyAtStartup == aborted => \A w \in Workers : connects[w] = 0

\* ---- C13 ----------------------------------------------------------------------
\* C13: with one reachable server in the pool, a worker inside connect can at
\* every dial pick the reachable server whatever it picked before, and it
\* eventually holds a connection to the reachable server, unless log.Fatalf ends
\* the process
C13_EventuallyConnectsToReachable ==
    /\ [](\A w \in Workers :
            /\ pc[w] = "dial" => \A a \in Reachable : ENABLED DialOk(w, a)
            /\ sock[w].st = "up" => sock[w].addr \in Reachable)
    /\ \A w \in Workers :
          (pc[w] \in ConnectPcs) ~>
             (aborted \/ (pc[w] \in RunPcs /\ sock[w].st = "up" /\ sock[w].addr \in Reachable))

\* during a reconnect with no transient failure left, a dial has failed: the
\* worker picked the server that is not reachable
C13_Witness ==
    pc[1] = "dialSleep" /\ caller[1] = "oops" /\ budget = 0 /\ Cardinality(Reachable) = 1

\* ---- C14 ----------------------------------------------------------------------
\* C14: while the acknowledgement is awaited the count of bytes read stays at
\* most 6, and at most 6 bytes are taken from the connection for one attempt
C14_AckNeverExceedsSix ==
    \A w \in Workers :
       pc[w] \in {"readAck", "forward", "ackClose"} =>
          ackbytes[w] <= AckLen /\ got[w] <= AckLen

\* ---- C15 ----------------------------------------------------------------------
\* C15: what was written on the worker's connection in the running exchange is
\* the beginning of window tag, count, payload tag, length, body, as far as the
\* worker's position says; the acknowledgement is read only after all five; and
\* an attempt starts, also after a failure and on a new connection, with nothing
\* written yet
C15_ProtocolOrder ==
    \A w \in Workers :
       /\ wire[w] # <<>> => IsPrefix(wire[w], Frames(page[w], payload[w]))
       /\ pc[w] \in {"setDeadline", "wTag"} => wire[w] = <<>>
       /\ pc[w] = "wCount" => Len(wire[w]) = 1
       /\ pc[w] = "cTag" => Len(wire[w]) = 2
       /\ pc[w] = "cLen" => Len(wire[w]) = 3
       /\ pc[w] = "cBody" => Len(wire[w]) = 4
       /\ pc[w] \in {"readAck", "ackClose", "forward"} =>
             wire[w] = Frames(page[w], payload[w])
       /\ pc[w] \in ConnectPcs /\ conn[w].st # "nil" => wire[w] = <<>>

\* on its second connection, after a failure, the worker has written the window
\* tag and nothing else
C15_Witness ==
    pc[1] = "wCount" /\ connects[1] = 2 /\ iofails[1] = 1 /\ wire[1] = << <<"tag", "1W">> >>

\* ---- C16 ----------------------------------------------------------------------
\* C16 as stated: every write and the acknowledgement read are made with the
\* deadline reset since the last operation on the socket
C16_DeadlineBeforeEachOperation ==
    \A w \in Workers : pc[w] \in WritePcs \cup {"readAck"} => dl[w]

\* C16 amended: the deadline is reset once per send attempt, before its first
\* write, also in an attempt that follows a reconnect; it is not reset again
\* before the other writes or before the acknowledgement read
C16_DeadlineOncePerAttempt ==
    \A w \in Workers :
       /\ pc[w] = "wTag" => dl[w] /\ sock[w].st = "up"
       /\ pc[w] \in (WritePcs \ {"wTag"}) \cup {"readAck"} => ~dl[w]

\* on its second connection the worker is about to make the first write of an
\* attempt
C16_Witness == pc[1] = "wTag" /\ connects[1] = 2 /\ dl[1]

\* ---- C17 ----------------------------------------------------------------------
\* the states of a socket that is open: dialled, or dialled and handshaken
OpenSt == {"tcp", "up"}

\* the socket the worker is working with: connect's while connect runs,
\* Publishv1's otherwise
Held(w) == IF pc[w] \in ConnectPcs THEN conn[w] ELSE sock[w]

\* C17: a worker has at most one open socket, the one it is working with: while
\* connect runs the socket it replaces is closed, connect dials only with the
\* socket of its last attempt closed, between two connects the worker's socket
\* is the one connect returned, and a worker that has returned has closed its
\* socket; so there are at most as many open sockets as started workers
C17_ConnectionOwnership ==
    /\ \A w \in Workers :
          /\ pc[w] \in {"off", "readId", "incLoad", "incStore"} =>
                sock[w] = NoSocket /\ conn[w] = NoSocket
          /\ pc[w] \in ConnectPcs => sock[w].st \notin OpenSt
          /\ pc[w] \in {"loadCert", "loadCA", "dial", "dialSleep"} => conn[w].st \notin OpenSt
          /\ pc[w] \in {"hsDeadline", "handshake", "hsSleep", "hsClose"} => conn[w].st = "tcp"
          /\ pc[w] \in RunPcs => sock[w].st = "up" /\ conn[w] = sock[w]
          /\ pc[w] = "done" => sock[w].st = "closed"
    /\ Cardinality({w \in Workers : Held(w).st \in OpenSt})
          <= Cardinality({w \in Workers : pc[w] # "off"})

\* one worker has closed the socket whose handshake failed and dials again,
\* while the other holds its connection
C17_Witness ==
    pc[1] = "dial" /\ conn[1].st = "closed" /\ sock[2].st = "up" /\ pc[2] \in RunPcs

\* ---- C18 ----------------------------------------------------------------------
RECURSIVE SumLen(_, _)
\* the sum of the lengths of f[w] over the workers w of S
SumLen(f, S) ==
    IF S = {} THEN 0
    ELSE LET w == CHOOSE x \in S : TRUE IN Len(f[w]) + SumLen(f, S \ {w})

\* C18: a worker has received at most one page more than it has forwarded, and
\* it receives only with every page it received forwarded; while the registrar
\* channel is full a worker at its hand-off neither forwards nor receives; so
\* the workers have taken from the input at most the pages the registrar took
\* out, those queued on the registrar channel, and one for each worker
C18_OneBatchInFlight ==
    /\ \A w \in Workers :
          /\ Len(recvd[w]) <= Len(fwd[w]) + 1
          /\ pc[w] = "recv" => recvd[w] = fwd[w]
          /\ ENABLED Recv(w) => recvd[w] = fwd[w]
          /\ (pc[w] = "forward" /\ Len(registrar) = RegistrarCap) =>
                ~ENABLED Recv(w) /\ ~ENABLED Forward(w)
    /\ Len(registrar) <= RegistrarCap
    /\ SumLen(recvd, Workers) <=
          (SumLen(fwd, Workers) - Len(registrar)) + RegistrarCap
             + Cardinality({w \in Workers : pc[w] # "off"})

\* the registrar channel is full and the worker waits at its hand-off with the
\* one further page it took
C18_Witness ==
    pc[1] = "forward" /\ Len(registrar) = RegistrarCap /\ Len(recvd[1]) = 2 /\ Len(fwd[1]) = 1

\* ---- C19 ----------------------------------------------------------------------
\* how many times the body of the current page was written
Bodies(w) == Cardinality({i \in 1..Len(sent[w]) : sent[w][i][1] = "body"})

\* between a failure of the exchange and the return of connect
ReconnectPcs == {"oopsSleep", "oopsClose", "ackClose"} \cup ConnectPcs

\* C19: connect has returned to a worker once at start and once for every I/O
\* failure of the exchange (while it reconnects the last failure is not yet
\* matched); without a failure the page is written once on the one connection;
\* the page is written at most once more than there were failures; and no page
\* is forwarded twice
C19_ConnectsIsOnePlusFailures ==
    \A w \in Workers :
       /\ pc[w] \in (RunPcs \cup {"done"}) \ ReconnectPcs => connects[w] = 1 + iofails[w]
       /\ pc[w] \in ReconnectPcs => connects[w] = iofails[w]
       /\ pc[w] \in {"off", "readId", "incLoad", "incStore"} =>
             connects[w] = 0 /\ iofails[w] = 0
       /\ (pc[w] = "forward" /\ iofails[w] = 0) => Bodies(w) = 1 /\ connects[w] = 1
       /\ pc[w] = "forward" => Bodies(w) >= 1
       /\ Bodies(w) <= 1 + iofails[w]
       /\ \A i, j \in 1..Len(fwd[w]) : fwd[w][i] = fwd[w][j] => i = j

\* after one failed attempt the page is acknowledged: one reconnect, the body
\* written twice, the page about to be forwarded
C19_Witness ==
    pc[1] = "forward" /\ connects[1] = 2 /\ iofails[1] = 1 /\ Bodies(1) = 2 /\ fwd[1] = <<>>

\* ---- C20 ----------------------------------------------------------------------
\* C20 as stated: every write, read and deadline update is made on a socket
\* that is open with its handshake done, and Publishv1's socket is closed only
\* while connect runs or after the worker returned
C20_IoOnlyOnLiveSocket ==
    \A w \in Workers :
       /\ pc[w] \in SendPcs => sock[w].st = "up"
       /\ pc[w] = "hsDeadline" => conn[w].st = "up"
       /\ sock[w].st = "closed" => pc[w] \in ConnectPcs \cup {"done"}

\* C20 amended: every write and read, and the deadline update of a send attempt,
\* is made on a socket that is open with its handshake done; the deadline update
\* in connect is made on the newly dialled, open socket before its handshake;
\* and Publishv1's socket is closed only while connect runs or after the worker
\* returned
C20_IoOnlyOnOpenSocket ==
    \A w \in Workers :
       /\ pc[w] \in SendPcs => sock[w].st = "up"
       /\ pc[w] \in {"hsDeadline", "handshake"} => conn[w].st = "tcp"
       /\ sock[w].st = "closed" => pc[w] \in ConnectPcs \cup {"done"}

\* after a read error the broken socket is closed and connect is about to set
\* the deadline of the socket it has just dialled
C20_Witness == pc[1] = "hsDeadline" /\ caller[1] = "ack" /\ sock[1].st = "closed"

====
